---- MODULE Spec2Model ----
(***************************************************************************)
(* Paper trading service (src/main.py): one JSON file of accounts keyed by *)
(* user id, and the handlers get_account, place_order, reset_account and   *)
(* get_orders that load the file, change one account and save the file.    *)
(*                                                                         *)
(* Amounts are integers in the currency unit.  The source computes with    *)
(* floats: every quotient is rounded to a representable value.  Here the   *)
(* representable values are the integers and RoundDiv rounds a quotient to *)
(* the nearest one, so that a stored average is a rounded value as it is   *)
(* in the source.  Products and sums of the amounts used here are exact.   *)
(* Times are ticks of a clock.  An account's createdAt is the clock at its  *)
(* creation or reset; the timestamp of an order record, which no handler   *)
(* reads, is left out.                                                     *)
(***************************************************************************)
EXTENDS Integers, Sequences, FiniteSets, TLC

VARIABLES
    accounts,   \* contents of PAPER_ACCOUNTS_FILE: user id -> account
    pc,         \* per worker thread: "idle", "loaded" (file read, not yet saved) or "done"
    loaded,     \* per worker thread: the dict load_accounts returned to it
    inflight,   \* per worker thread: the request it is handling
    base,       \* the file contents when the current group of overlapping requests began
    now,        \* the clock datetime.utcnow() reads
    step,       \* get_current_price: where the call is ("idle" when none is running)
    attempt,    \* get_current_price: the loop variable of the retry loop
    outcomes,   \* get_current_price: what the price source answered to each fetch so far
    returned    \* get_current_price: the value the last call returned, None before

workerVars == <<pc, loaded, inflight, base>>
priceVars == <<step, attempt, outcomes, returned>>
vars == <<accounts, workerVars, now, priceVars>>

----------------------------------------------------------------------------
(* Configuration, src/main.py lines 34-37 *)

SLIPPAGE_PERCENT_NUM == 1
SLIPPAGE_PERCENT_DEN == 10      \* SLIPPAGE_PERCENT = 0.1 = 1/10
COMMISSION_PER_TRADE == 0
STARTING_CASH == 100000

----------------------------------------------------------------------------
(* Bounds of the model and the inputs drawn by the handlers *)

MaxOrders == 2                  \* orders recorded in one account's history
MaxWorkers == 2                 \* worker threads handling requests at once
MaxClock == 1                   \* ticks of the clock

Tickers == {"XYZ", "ABC"}
OrderTypes == {"market", "limit"}
Sides == {"buy", "sell"}
\* Order.quantity is an unvalidated float: values that are not positive are accepted
Quantities == {-1, 1, 2}
\* get_current_price returns 0.0 when no price is available
Unavailable == 0
MarketPrices == {Unavailable, 30000}
\* Optional[float]: None is <<>>, a value v is <<v>>
None == <<>>
Some(v) == <<v>>
\* limit prices below, at and above the market price
LimitPrices == {None, Some(20000), Some(30000), Some(40000)}
\* what get_current_price returns for each ticker during one valuation
PriceTables == [Tickers -> MarketPrices]

\* the orders requested: a market order carries no limit price
Orders ==
    { o \in [ticker : Tickers, type : OrderTypes, side : Sides,
              quantity : Quantities, limitPrice : LimitPrices] :
        o.type = "market" => o.limitPrice = None }

Workers == 1..MaxWorkers

----------------------------------------------------------------------------
(* Arithmetic *)

\* a / b rounded to the nearest representable value (b # 0)
RoundDiv(a, b) ==
    IF b > 0 THEN (2 * a + b) \div (2 * b)
             ELSE (2 * (0 - a) + (0 - b)) \div (2 * (0 - b))

----------------------------------------------------------------------------
(* Helper functions *)

\* verify_token: the mock always resolves to the same user
verify_token == "user_1"

UserIds == {verify_token}

\* the account a first access or a reset stores at the time created_at
NewAccount(user_id, created_at) ==
    [userId |-> user_id, cash |-> STARTING_CASH, positions |-> <<>>, orders |-> <<>>,
     createdAt |-> created_at]

\* accounts[user_id] = account, on a dict
DictSet(accts, user_id, account) ==
    [u \in (DOMAIN accts) \cup {user_id} |-> IF u = user_id THEN account ELSE accts[u]]

EmptyDict == [u \in {} |-> NewAccount(u, 0)]

\* faulty variant: the slippage is added whatever the side
apply_slippage_added(price, side) ==
    price + RoundDiv(price * SLIPPAGE_PERCENT_NUM, SLIPPAGE_PERCENT_DEN * 100)

\* apply_slippage
apply_slippage(price, side) ==
    LET slippage == RoundDiv(price * SLIPPAGE_PERCENT_NUM, SLIPPAGE_PERCENT_DEN * 100)
    IN  IF side = "buy" THEN price + slippage ELSE price - slippage

\* faulty variant: the search compares nothing and finds no position
FindPositionNever(positions, ticker) == 0

\* the first position of the list with the ticker: its index, or 0 for None
FindPosition(positions, ticker) ==
    IF \E i \in 1..Len(positions) : positions[i].ticker = ticker
    THEN CHOOSE i \in 1..Len(positions) :
            /\ positions[i].ticker = ticker
            /\ \A j \in 1..(i - 1) : positions[j].ticker # ticker
    ELSE 0

\* list.remove of the element at index i
RemoveAt(s, i) == [j \in 1..(Len(s) - 1) |-> IF j < i THEN s[j] ELSE s[j + 1]]

\* f"order_{n}"; the empty id "" of a rejection is <<>>
OrderId(n) == <<"order_", n>>

\* faulty variant: the number of the records already in the history
NextOrderNumberFromZero(orders) == Len(orders)

\* the n of the next order id: len(account['orders']) + 1
NextOrderNumber(orders) == Len(orders) + 1
NoOrderId == <<>>

\* OrderResponse(orderId="", status="rejected", message=...)
Rejected(message) ==
    [kind |-> "order", code |-> 200, orderId |-> NoOrderId, status |-> "rejected",
     filledPrice |-> None, filledQuantity |-> None, message |-> message]

\* OrderResponse(orderId=order_id, status="filled", ...)
Filled(order_id, execution_price, quantity) ==
    [kind |-> "order", code |-> 200, orderId |-> order_id, status |-> "filled",
     filledPrice |-> Some(execution_price), filledQuantity |-> Some(quantity),
     message |-> <<"Order filled at $", execution_price>>]

\* an HTTPException, or an exception escaping the handler (status 500)
HttpError(code, detail) ==
    [kind |-> "error", code |-> code, orderId |-> NoOrderId, status |-> "error",
     filledPrice |-> None, filledQuantity |-> None, message |-> <<detail>>]

----------------------------------------------------------------------------
(* place_order, step by step *)

\* faulty variant: a limit buy must be strictly above the market price
LimitFavorableStrict(side, limitPrice, market_price) ==
    \/ side = "buy" /\ limitPrice > market_price
    \/ side = "sell" /\ limitPrice <= market_price

\* the limit branch's test: is the limit price favorable for immediate execution
LimitFavorable(side, limitPrice, market_price) ==
    \/ side = "buy" /\ limitPrice >= market_price
    \/ side = "sell" /\ limitPrice <= market_price

\* "Determine execution price": [ok, price] or [ok, message]
DetermineExecutionPrice(order, market_price) ==
    IF order.type = "market"
    THEN [ok |-> TRUE, price |-> apply_slippage(market_price, order.side)]
    ELSE IF order.limitPrice = None
    THEN [ok |-> FALSE, message |-> <<"Limit price required for limit orders">>]
    ELSE IF LimitFavorable(order.side, order.limitPrice[1], market_price)
    THEN [ok |-> TRUE, price |-> order.limitPrice[1]]
    ELSE [ok |-> FALSE, message |-> <<"Limit price not favorable for immediate execution">>]

\* total_cost of a buy
TotalCost(quantity, execution_price) == quantity * execution_price + COMMISSION_PER_TRADE

\* faulty variant: the proceeds of one unit, whatever the quantity
ProceedsOfOneUnit(quantity, execution_price) == execution_price - COMMISSION_PER_TRADE

\* proceeds of a sell
Proceeds(quantity, execution_price) == (quantity * execution_price) - COMMISSION_PER_TRADE

\* faulty variant: a buy that needs all the cash is refused
InsufficientFundsOrEqual(cash, total_cost) == cash <= total_cost

\* the funds test of a buy
InsufficientFunds(cash, total_cost) == cash < total_cost

\* faulty variant: the comparison of the shares test reversed
InsufficientSharesReversed(held, quantity) == quantity < held

\* the shares test of a sell
InsufficientShares(held, quantity) == held < quantity

\* faulty variant: the average of the old basis and the fill price, not weighted by quantity
UpdatePositionUnweighted(pos, quantity, execution_price) ==
    [pos EXCEPT !.avgCostBasis = RoundDiv(pos.avgCostBasis + execution_price, 2),
                !.quantity = pos.quantity + quantity]

\* "Update average cost basis" of an existing position (total_quantity # 0)
UpdatePosition(pos, quantity, execution_price) ==
    LET total_quantity == pos.quantity + quantity
        total_cost_basis == (pos.quantity * pos.avgCostBasis) + (quantity * execution_price)
    IN  [pos EXCEPT !.avgCostBasis = RoundDiv(total_cost_basis, total_quantity),
                    !.quantity = total_quantity]

\* "Add new position"
NewPosition(ticker, quantity, execution_price) ==
    [ticker |-> ticker, quantity |-> quantity, avgCostBasis |-> execution_price]

\* the buy branch: [outcome, account, message]
ExecuteBuy(account, order, execution_price) ==
    LET total_cost == TotalCost(order.quantity, execution_price)
        i == FindPosition(account.positions, order.ticker)
    IN  IF InsufficientFunds(account.cash, total_cost)
        THEN [outcome |-> "rejected", account |-> account, message |-> <<"Insufficient funds">>]
        ELSE IF i # 0 /\ account.positions[i].quantity + order.quantity = 0
        THEN \* total_cost_basis / total_quantity raises ZeroDivisionError
             [outcome |-> "raise", account |-> account, message |-> <<"ZeroDivisionError">>]
        ELSE [outcome |-> "ok", message |-> <<>>,
              account |->
                [account EXCEPT
                   !.cash = account.cash - total_cost,
                   !.positions =
                      IF i # 0
                      THEN [account.positions EXCEPT
                              ![i] = UpdatePosition(account.positions[i], order.quantity,
                                                    execution_price)]
                      ELSE Append(account.positions,
                                  NewPosition(order.ticker, order.quantity, execution_price))]]

\* faulty variant: a sell keeps the total cost, so the basis per unit changes
SellKeepingTotalCost(positions, i, quantity) ==
    LET left == positions[i].quantity - quantity
    IN  IF left = 0
        THEN RemoveAt(positions, i)
        ELSE [positions EXCEPT
                ![i].quantity = left,
                ![i].avgCostBasis =
                    RoundDiv(positions[i].quantity * positions[i].avgCostBasis, left)]

\* "Update or remove position" of a sell
SellFromPositions(positions, i, quantity) ==
    LET left == positions[i].quantity - quantity
    IN  IF left = 0
        THEN RemoveAt(positions, i)
        ELSE [positions EXCEPT ![i].quantity = left]

\* the sell branch: [outcome, account, message]
ExecuteSell(account, order, execution_price) ==
    LET i == FindPosition(account.positions, order.ticker)
    IN  IF i = 0
        THEN [outcome |-> "rejected", account |-> account, message |-> <<"No position to sell">>]
        ELSE IF InsufficientShares(account.positions[i].quantity, order.quantity)
        THEN [outcome |-> "rejected", account |-> account, message |-> <<"Insufficient shares">>]
        ELSE [outcome |-> "ok", message |-> <<>>,
              account |->
                [account EXCEPT
                   !.cash = account.cash + Proceeds(order.quantity, execution_price),
                   !.positions = SellFromPositions(account.positions, i, order.quantity)]]

\* "Record order" (timestamp is not modelled)
OrderRecord(order_id, order, execution_price) ==
    [orderId |-> order_id, ticker |-> order.ticker, type |-> order.type,
     side |-> order.side, quantity |-> order.quantity,
     filledPrice |-> execution_price, filledQuantity |-> order.quantity,
     status |-> "filled"]

\* faulty variant: the order is recorded and saved before the rejections return
RecordedAlsoWhenRejected(outcome) == outcome # "raise"

\* the statements after the buy and sell branches ("Record order", save_accounts and
\* the filled response) are reached only when no branch returned or raised
Recorded(outcome) == outcome = "ok"

\* faulty variant: an order of a user without an account opens the account, as
\* get_account does, and goes on to the price
NotFoundCreating(accts, user_id) ==
    [accounts |-> DictSet(accts, user_id, NewAccount(user_id, 0)), saved |-> TRUE,
     queried |-> TRUE, response |-> Rejected(<<"Account not found">>)]

\* the answer to the order of a user without an account: raised before
\* get_current_price is called and before anything is written
NotFound(accts, user_id) ==
    [accounts |-> accts, saved |-> FALSE, queried |-> FALSE,
     response |-> HttpError(404, "Account not found")]

\* faulty variant: the price test left out
PriceAlwaysAvailable(market_price) == FALSE

\* the test of the price get_current_price returned: market_price == 0
PriceUnavailable(market_price) == market_price = Unavailable

\* place_order on the dict load_accounts returned, with the price get_current_price
\* returns: [accounts, saved, queried, response], where accounts is the dict
\* save_accounts writes when saved, and the dict loaded otherwise, and queried tells
\* whether get_current_price was called
place_order(accts, order, market_price) ==
    LET user_id == verify_token
        unsaved(resp) ==
            [accounts |-> accts, saved |-> FALSE, queried |-> TRUE, response |-> resp]
    IN  IF user_id \notin DOMAIN accts
        THEN NotFound(accts, user_id)
        ELSE IF PriceUnavailable(market_price)
        THEN unsaved(Rejected(<<"Unable to fetch price for ", order.ticker>>))
        ELSE
        LET account == accts[user_id]
            dec == DetermineExecutionPrice(order, market_price)
        IN  IF ~dec.ok
            THEN unsaved(Rejected(dec.message))
            ELSE
            LET exe == IF order.side = "buy"
                       THEN ExecuteBuy(account, order, dec.price)
                       ELSE ExecuteSell(account, order, dec.price)
                order_id == OrderId(NextOrderNumber(account.orders))
                recorded == [exe.account EXCEPT
                               !.orders = Append(account.orders,
                                                 OrderRecord(order_id, order, dec.price))]
            IN  [accounts |-> IF Recorded(exe.outcome)
                              THEN DictSet(accts, user_id, recorded)
                              ELSE accts,
                 saved |-> Recorded(exe.outcome),
                 queried |-> TRUE,
                 response |->
                    IF exe.outcome = "rejected" THEN Rejected(exe.message)
                    ELSE IF exe.outcome = "raise" THEN HttpError(500, exe.message[1])
                    ELSE Filled(order_id, dec.price, order.quantity)]

\* faulty variant: a reset restores the cash and the ledger and keeps the order history
reset_account_keeping_orders(accts, utcnow) ==
    LET user_id == verify_token
        fresh == NewAccount(user_id, utcnow)
    IN  [accounts |-> DictSet(accts, user_id,
                         IF user_id \in DOMAIN accts
                         THEN [fresh EXCEPT !.orders = accts[user_id].orders]
                         ELSE fresh),
         saved |-> TRUE,
         response |-> [kind |-> "reset", code |-> 200,
                       message |-> <<"Account reset successfully">>,
                       startingCash |-> STARTING_CASH]]

\* reset_account on the dict loaded, at the time utcnow: [accounts, saved, response]
reset_account(accts, utcnow) ==
    LET user_id == verify_token
    IN  [accounts |-> DictSet(accts, user_id, NewAccount(user_id, utcnow)),
         saved |-> TRUE,
         response |-> [kind |-> "reset", code |-> 200,
                       message |-> <<"Account reset successfully">>,
                       startingCash |-> STARTING_CASH]]

\* get_orders on the dict loaded: [accounts, saved, response]
get_orders(accts) ==
    LET user_id == verify_token
    IN  [accounts |-> accts, saved |-> FALSE,
         response |->
            [kind |-> "orders", code |-> 200,
             orders |-> IF user_id \notin DOMAIN accts THEN <<>>
                        ELSE accts[user_id].orders]]


----------------------------------------------------------------------------
(* get_account and the valuation *)

Sum(f, n) == LET S[k \in 0..n] == IF k = 0 THEN 0 ELSE S[k - 1] + f[k] IN S[n]

\* faulty variant: a position without a price is valued at its cost
ValuedAtCostWhenUnavailable(position, current_price) ==
    LET price == IF current_price = Unavailable THEN position.avgCostBasis
                 ELSE current_price
        market_value == position.quantity * price
        cost_basis == position.quantity * position.avgCostBasis
        unrealized_pl == market_value - cost_basis
    IN  [ticker |-> position.ticker, quantity |-> position.quantity,
         avgCostBasis |-> position.avgCostBasis,
         currentPrice |-> price, marketValue |-> market_value,
         unrealizedPL |-> unrealized_pl,
         unrealizedPLPercent |->
            IF cost_basis > 0 THEN RoundDiv(unrealized_pl * 100, cost_basis) ELSE 0]

\* one position with its valuation fields, at the price get_current_price returned
ValuedPosition(position, current_price) ==
    LET market_value == position.quantity * current_price
        cost_basis == position.quantity * position.avgCostBasis
        unrealized_pl == market_value - cost_basis
    IN  [ticker |-> position.ticker, quantity |-> position.quantity,
         avgCostBasis |-> position.avgCostBasis,
         currentPrice |-> current_price, marketValue |-> market_value,
         unrealizedPL |-> unrealized_pl,
         unrealizedPLPercent |->
            IF cost_basis > 0 THEN RoundDiv(unrealized_pl * 100, cost_basis) ELSE 0]

\* calculate_account_metrics, prices[ticker] being what get_current_price returns
calculate_account_metrics(account, prices) ==
    LET initial_value == STARTING_CASH
        positions == [i \in 1..Len(account.positions) |->
                        ValuedPosition(account.positions[i],
                                       prices[account.positions[i].ticker])]
        total_market_value ==
            account.cash + Sum([i \in 1..Len(positions) |-> positions[i].marketValue],
                               Len(positions))
        totalPL == total_market_value - initial_value
    IN  [userId |-> account.userId, cash |-> account.cash, positions |-> positions,
         orders |-> account.orders, createdAt |-> account.createdAt,
         totalValue |-> total_market_value,
         totalPL |-> totalPL,
         totalPLPercent |->
            IF initial_value > 0 THEN RoundDiv(totalPL * 100, initial_value) ELSE 0]

\* faulty variant: the dict is saved after calculate_account_metrics has written the
\* valuation fields into it
get_account_saving_valuation(accts, prices, utcnow) ==
    LET user_id == verify_token
        created == user_id \notin DOMAIN accts
        after == IF created THEN DictSet(accts, user_id, NewAccount(user_id, utcnow))
                 ELSE accts
        valued == calculate_account_metrics(after[user_id], prices)
    IN  [accounts |-> DictSet(after, user_id, valued), saved |-> TRUE,
         response |-> [kind |-> "account", code |-> 200, account |-> valued]]

\* get_account on the dict loaded, at the time utcnow: [accounts, saved, response].
\* The dict is saved when the account is created, before calculate_account_metrics
\* writes the valuation fields into the dict in memory, which is then returned and
\* dropped
get_account(accts, prices, utcnow) ==
    LET user_id == verify_token
        created == user_id \notin DOMAIN accts
        after == IF created THEN DictSet(accts, user_id, NewAccount(user_id, utcnow))
                 ELSE accts
        valued == calculate_account_metrics(after[user_id], prices)
    IN  [accounts |-> after, saved |-> created,
         response |-> [kind |-> "account", code |-> 200, account |-> valued]]

----------------------------------------------------------------------------
(* The requests, one at a time: each handler runs from load to save.  The   *)
(* state is what persists between requests, the file; what a handler       *)
(* returns is the response field of its operator.                          *)

NoRequest == [op |-> "none"]

Init ==
    /\ accounts = EmptyDict
    /\ pc = [w \in Workers |-> "idle"]
    /\ loaded = [w \in Workers |-> EmptyDict]
    /\ inflight = [w \in Workers |-> NoRequest]
    /\ base = EmptyDict
    /\ now = 0
    /\ step = "idle"
    /\ attempt = 0
    /\ outcomes = <<>>
    /\ returned = None

\* the history of the user's account has room for another order (bound of the model)
RoomForOrder(accts) ==
    verify_token \in DOMAIN accts => Len(accts[verify_token].orders) < MaxOrders

GetAccount ==
    \E prices \in PriceTables :
        LET r == get_account(accounts, prices, now)
        IN  /\ accounts' = r.accounts
            /\ UNCHANGED <<workerVars, now, priceVars>>

PlaceOrder ==
    \E order \in Orders, market_price \in MarketPrices :
        LET r == place_order(accounts, order, market_price)
        IN  /\ RoomForOrder(accounts)
            /\ accounts' = r.accounts
            /\ UNCHANGED <<workerVars, now, priceVars>>

ResetAccount ==
    LET r == reset_account(accounts, now)
    IN  /\ accounts' = r.accounts
        /\ UNCHANGED <<workerVars, now, priceVars>>

GetOrders ==
    LET r == get_orders(accounts)
    IN  /\ accounts' = r.accounts
        /\ UNCHANGED <<workerVars, now, priceVars>>

Next == GetAccount \/ PlaceOrder \/ ResetAccount \/ GetOrders

Spec == Init /\ [][Next]_vars

\* time passes between two requests
Tick ==
    /\ now < MaxClock
    /\ now' = now + 1
    /\ UNCHANGED <<accounts, workerVars, priceVars>>

NextClock == Next \/ Tick

\* the requests, one at a time, as the clock advances
SpecClock == Init /\ [][NextClock]_vars


----------------------------------------------------------------------------
(* The requests handled by worker threads at once.  The handlers are plain   *)
(* functions, which the framework runs in a thread pool: between the         *)
(* load_accounts of a request and its save_accounts other requests load and  *)
(* save.  No handler takes a lock.  A read and a write of the file are taken *)
(* as one step each.                                                         *)

\* the orders requested at once: market orders of one unit
ConcurrentOrders == { o \in Orders : o.type = "market" /\ o.quantity = 1 }

Requests ==
    [op : {"place_order"}, order : ConcurrentOrders]
        \cup [op : {"reset_account"}] \cup [op : {"get_account"}]

\* no request is between its load and its save
Quiescent == \A w \in Workers : pc[w] # "loaded"

\* a worker takes a request and runs the handler up to load_accounts; the requests
\* begun while none is in flight start a new group of overlapping requests
Load(w) ==
    \E req \in Requests :
        /\ req.op = "place_order" => RoomForOrder(accounts)
        /\ IF Quiescent
           THEN /\ base' = accounts
                /\ pc' = [v \in Workers |-> IF v = w THEN "loaded" ELSE "idle"]
           ELSE /\ pc[w] = "idle"
                /\ base' = base
                /\ pc' = [pc EXCEPT ![w] = "loaded"]
        /\ loaded' = [loaded EXCEPT ![w] = accounts]
        /\ inflight' = [inflight EXCEPT ![w] = req]
        /\ UNCHANGED <<accounts, now, priceVars>>

\* the handler of the request on the dict loaded, with what the price source returns:
\* [accounts, saved, response]
Handle(accts, req) ==
    IF req.op = "place_order" THEN place_order(accts, req.order, req.market_price)
    ELSE IF req.op = "reset_account" THEN reset_account(accts, req.utcnow)
    ELSE get_account(accts, req.prices, req.utcnow)

\* the worker runs the rest of the handler: the prices are fetched, the dict it loaded
\* is changed and, where the handler saves, written over the file
Save(w) ==
    /\ pc[w] = "loaded"
    /\ \E market_price \in MarketPrices, prices \in PriceTables :
          LET req == IF inflight[w].op = "place_order"
                     THEN [op |-> "place_order", order |-> inflight[w].order,
                           market_price |-> market_price]
                     ELSE IF inflight[w].op = "get_account"
                     THEN [op |-> "get_account", prices |-> prices, utcnow |-> now]
                     ELSE [op |-> "reset_account", utcnow |-> now]
              r == Handle(loaded[w], req)
          IN  /\ accounts' = IF r.saved THEN r.accounts ELSE accounts
              /\ inflight' = [inflight EXCEPT ![w] = req]
    /\ pc' = [pc EXCEPT ![w] = "done"]
    /\ UNCHANGED <<loaded, base, now, priceVars>>

NextConcurrent == \E w \in Workers : Load(w) \/ Save(w)

SpecConcurrent == Init /\ [][NextConcurrent]_vars

\* the file after the requests of the workers in D ran one after the other, from the
\* file accts, in each order
RECURSIVE SerialResults(_, _)
SerialResults(accts, D) ==
    IF D = {} THEN {accts}
    ELSE UNION { SerialResults(Handle(accts, inflight[w]).accounts, D \ {w}) : w \in D }

----------------------------------------------------------------------------
(* get_current_price, statement by statement.  One call runs at a time.  The  *)
(* price source answers each stock.history call with rows, whose last close   *)
(* is a price, with no row, or with an exception.                             *)

max_retries == 3

ClosePrices == {20000, 30000}
\* what the price source answers to one history call: rows with a last close, no row,
\* or an exception
Rows(close) == [kind |-> "rows", close |-> close]
Empty == [kind |-> "empty", close |-> 0]
Exception == [kind |-> "exception", close |-> 0]
FetchResults == { Rows(close) : close \in ClosePrices } \cup {Empty, Exception}

\* for attempt in range(max_retries)
InRange(n) == n < max_retries

\* faulty variant: the try block does not cover the history calls
AfterFetchUncaught(period, result) ==
    IF result.kind = "rows" THEN "returned"
    ELSE IF result = Exception THEN "raised"
    ELSE IF period = "1d" THEN "fetch_5d"
    ELSE "no_data"

\* where the call goes after a history call: the return of the close, the except
\* clause, the second history call, or the statements after both came back empty
AfterFetch(period, result) ==
    IF result.kind = "rows" THEN "returned"
    ELSE IF result = Exception THEN "except"
    ELSE IF period = "1d" THEN "fetch_5d"
    ELSE "no_data"

\* get_current_price is called
Call ==
    /\ step \in {"idle", "returned"}
    /\ IF InRange(0)
       THEN step' = "fetch_1d" /\ returned' = None
       ELSE step' = "returned" /\ returned' = Some(Unavailable)
    /\ attempt' = 0
    /\ outcomes' = <<>>
    /\ UNCHANGED <<accounts, workerVars, now>>

\* stock.history(period=...) and the test of data.empty
Fetch(period) ==
    /\ step = (IF period = "1d" THEN "fetch_1d" ELSE "fetch_5d")
    /\ \E result \in FetchResults :
          /\ outcomes' = Append(outcomes, [attempt |-> attempt, period |-> period,
                                            result |-> result])
          /\ step' = AfterFetch(period, result)
          /\ returned' = IF result.kind = "rows" THEN Some(result.close) ELSE None
    /\ UNCHANGED <<accounts, workerVars, now, attempt>>

\* no data, or an exception caught: sleep and go on when attempts are left, return 0.0
\* when none is
Retry ==
    /\ step \in {"no_data", "except"}
    /\ IF attempt < max_retries - 1
       THEN step' = "sleep" /\ returned' = None
       ELSE step' = "returned" /\ returned' = Some(Unavailable)
    /\ UNCHANGED <<accounts, workerVars, now, attempt, outcomes>>

\* time.sleep(1) is over: the next round of the loop, or the return 0.0 after the loop
Sleep ==
    /\ step = "sleep"
    /\ attempt' = attempt + 1
    /\ IF InRange(attempt + 1)
       THEN step' = "fetch_1d" /\ returned' = None
       ELSE step' = "returned" /\ returned' = Some(Unavailable)
    /\ UNCHANGED <<accounts, workerVars, now, outcomes>>

\* the statements of a running call
Running == Fetch("1d") \/ Fetch("5d") \/ Retry \/ Sleep

NextPrice == Call \/ Running

\* a thread that runs the call goes on to its next statement
SpecPrice == Init /\ [][NextPrice]_vars /\ WF_vars(Running)

----------------------------------------------------------------------------
(* Properties.  The user's stored account, and what place_order answers to   *)
(* each order at each price on the stored accounts                           *)

HasAccount == verify_token \in DOMAIN accounts
Account == accounts[verify_token]
LastOrder == Account.orders[Len(Account.orders)]
Priced == MarketPrices \ {Unavailable}

\* the ledger holds no position for the ticker
NotHeld(positions, ticker) == \A i \in 1..Len(positions) : positions[i].ticker # ticker

\* C1: in every reachable state the persisted cash balance of every account is >= 0
CashNeverNegative == \A u \in DOMAIN accounts : accounts[u].cash >= 0

\* C2: requests on the same account that overlap are serialized: once the requests of
\* a group have all saved, the file is what running them one after the other, in some
\* order, leaves
Serialized ==
    Quiescent => accounts \in SerialResults(base, { w \in Workers : pc[w] = "done" })

\* C3: a place_order call either fills, and then the account is saved with exactly one
\* more order record, a filled one that carries the response's id, price and quantity,
\* or it does not fill (a rejection or an error), and then nothing is saved and cash,
\* positions and history stay as they were; every record of the history is a filled one
FillOrNothing ==
    /\ \A order \in Orders, market_price \in MarketPrices :
          LET r == place_order(accounts, order, market_price)
          IN  IF r.response.status = "filled"
              THEN /\ HasAccount
                   /\ r.saved
                   /\ DOMAIN r.accounts = DOMAIN accounts
                   /\ LET after == r.accounts[verify_token]
                          n == Len(after.orders)
                      IN  /\ n = Len(Account.orders) + 1
                          /\ SubSeq(after.orders, 1, n - 1) = Account.orders
                          /\ after.orders[n].status = "filled"
                          /\ after.orders[n].orderId = r.response.orderId
                          /\ Some(after.orders[n].filledPrice) = r.response.filledPrice
                          /\ Some(after.orders[n].filledQuantity) = r.response.filledQuantity
                          /\ after.orders[n].ticker = order.ticker
                          /\ after.orders[n].side = order.side
              ELSE /\ ~r.saved
                   /\ r.accounts = accounts
                   /\ r.response.orderId = NoOrderId
    /\ HasAccount => \A k \in 1..Len(Account.orders) : Account.orders[k].status = "filled"

\* C3 witness: an account with a position and a filled order in its history, on which
\* a sell of more than is held is answered by a rejection
RejectionOnUsedAccount ==
    /\ HasAccount
    /\ Len(Account.orders) >= 1
    /\ Len(Account.positions) >= 1
    /\ Account.cash < STARTING_CASH
    /\ \E order \in Orders :
          /\ order.side = "sell"
          /\ place_order(accounts, order, 30000).response =
                Rejected(<<"Insufficient shares">>)

\* C4: a buy whose required cash, quantity x executionPrice + commission, exceeds the
\* cash of the account is rejected with "Insufficient funds" and nothing changes; a buy
\* whose required cash is at most the cash is not rejected for funds
BuyFundsCheck ==
    HasAccount =>
    \A order \in Orders, market_price \in Priced :
        LET dec == DetermineExecutionPrice(order, market_price)
            r == place_order(accounts, order, market_price)
        IN  (order.side = "buy" /\ dec.ok) =>
            LET required == order.quantity * dec.price + COMMISSION_PER_TRADE
            IN  /\ required > Account.cash =>
                     /\ r.response = Rejected(<<"Insufficient funds">>)
                     /\ ~r.saved
                     /\ r.accounts = accounts
                /\ required <= Account.cash =>
                     r.response.message # <<"Insufficient funds">>

\* C4 witness: after a filled buy the cash is too short for a buy of one unit at market
CashTooShort ==
    /\ HasAccount
    /\ Len(Account.orders) >= 1
    /\ LastOrder.side = "buy"
    /\ Account.cash >= 0
    /\ Account.cash < 30030
    /\ \E order \in Orders :
          /\ order.side = "buy" /\ order.type = "market" /\ order.quantity = 1
          /\ place_order(accounts, order, 30000).response =
                Rejected(<<"Insufficient funds">>)

\* C5: a sell of a ticker that is not held, or of more than the held quantity, is
\* rejected and changes nothing, with "No position to sell" and "Insufficient shares"
\* when the order gets as far as the sell; a sell that fills leaves no negative quantity
SellChecks ==
    HasAccount =>
    \A order \in Orders, market_price \in MarketPrices :
        order.side = "sell" =>
        LET positions == Account.positions
            r == place_order(accounts, order, market_price)
            absent == NotHeld(positions, order.ticker)
            short == \E i \in 1..Len(positions) :
                        /\ positions[i].ticker = order.ticker
                        /\ positions[i].quantity < order.quantity
            reached == /\ market_price # Unavailable
                       /\ DetermineExecutionPrice(order, market_price).ok
        IN  /\ (absent \/ short) =>
                 /\ r.response.status = "rejected"
                 /\ ~r.saved
                 /\ r.accounts = accounts
            /\ (reached /\ absent) => r.response = Rejected(<<"No position to sell">>)
            /\ (reached /\ short) => r.response = Rejected(<<"Insufficient shares">>)
            /\ r.response.status = "filled" =>
                 \A i \in 1..Len(r.accounts[verify_token].positions) :
                    r.accounts[verify_token].positions[i].ticker = order.ticker
                        => r.accounts[verify_token].positions[i].quantity >= 0

\* C5 witness: after a filled order one unit of XYZ is held and none of ABC; a sell of
\* two XYZ and a sell of ABC are answered by the two rejections
HoldsOneOfOneTicker ==
    /\ HasAccount
    /\ Len(Account.orders) >= 1
    /\ Account.positions = <<[ticker |-> "XYZ", quantity |-> 1,
                              avgCostBasis |-> LastOrder.filledPrice]>>
    /\ \E order \in Orders :
          /\ order.side = "sell" /\ order.ticker = "XYZ" /\ order.quantity = 2
          /\ place_order(accounts, order, 30000).response =
                Rejected(<<"Insufficient shares">>)
    /\ \E order \in Orders :
          /\ order.side = "sell" /\ order.ticker = "ABC"
          /\ place_order(accounts, order, 30000).response =
                Rejected(<<"No position to sell">>)

\* C6: a filled buy takes quantity x filledPrice + commission from the cash and a filled
\* sell adds quantity x filledPrice - commission to it, filledPrice being the price of
\* the response and of the order record
CashConservation ==
    \A order \in Orders, market_price \in Priced :
        LET r == place_order(accounts, order, market_price)
        IN  r.response.status = "filled" =>
            LET after == r.accounts[verify_token]
                price == r.response.filledPrice[1]
                quantity == r.response.filledQuantity[1]
            IN  /\ quantity = order.quantity
                /\ after.orders[Len(after.orders)].filledPrice = price
                /\ order.side = "buy" =>
                     after.cash = Account.cash - (quantity * price + COMMISSION_PER_TRADE)
                /\ order.side = "sell" =>
                     after.cash = Account.cash + (quantity * price - COMMISSION_PER_TRADE)

\* C6 witness: a market sell of two units was filled after a limit buy of two at 40000
BoughtAndSoldTwo ==
    /\ HasAccount
    /\ Len(Account.orders) = 2
    /\ Account.orders[1].side = "buy" /\ Account.orders[1].quantity = 2
    /\ Account.orders[1].filledPrice = 40000
    /\ LastOrder.side = "sell" /\ LastOrder.quantity = 2
    /\ LastOrder.filledPrice = 29970
    /\ Account.cash = STARTING_CASH - 80000 + 59940

\* the orders of the history for one ticker, in the order they were filled
OrdersOf(ticker) ==
    LET IsFor(rec) == rec.ticker = ticker IN SelectSeq(Account.orders, IsFor)

Abs(x) == IF x < 0 THEN 0 - x ELSE x

\* the sum of quantity over the first n records, of quantity x filledPrice, and of the
\* absolute running quantity after each record but the first
SumQuantity(recs, n) ==
    LET S[k \in 0..n] == IF k = 0 THEN 0 ELSE S[k - 1] + recs[k].quantity IN S[n]
SumCost(recs, n) ==
    LET S[k \in 0..n] ==
            IF k = 0 THEN 0 ELSE S[k - 1] + recs[k].quantity * recs[k].filledPrice
    IN  S[n]
SumRunning(recs, n) ==
    LET S[k \in 0..n] == IF k <= 1 THEN 0 ELSE S[k - 1] + Abs(SumQuantity(recs, k))
    IN  S[n]

\* the history of the ticker has buys only, at least two of them
OnlyBuys(ticker) ==
    /\ Len(OrdersOf(ticker)) >= 2
    /\ \A k \in 1..Len(OrdersOf(ticker)) : OrdersOf(ticker)[k].side = "buy"

SellKeepsCostBasis ==
    HasAccount =>
    \A order \in Orders, market_price \in Priced :
        LET r == place_order(accounts, order, market_price)
            Other(pos) == pos.ticker # order.ticker
        IN  (order.side = "sell" /\ r.response.status = "filled") =>
            LET before == Account.positions
                after == r.accounts[verify_token].positions
                i == FindPosition(before, order.ticker)
            IN  /\ SelectSeq(after, Other) = SelectSeq(before, Other)
                /\ \A j \in 1..Len(after) :
                      after[j].ticker = order.ticker =>
                        /\ after[j].avgCostBasis = before[i].avgCostBasis
                        /\ after[j].quantity = before[i].quantity - order.quantity
                /\ Len(after) \in {Len(before), Len(before) - 1}

\* C8 witness: two units bought at 40000, one of them sold at market, one left at 40000
SoldOneOfTwo ==
    /\ HasAccount
    /\ Len(Account.orders) = 2
    /\ Account.orders[1].side = "buy" /\ Account.orders[1].quantity = 2
    /\ Account.orders[1].filledPrice = 40000
    /\ LastOrder.side = "sell" /\ LastOrder.quantity = 1 /\ LastOrder.filledPrice = 29970
    /\ Account.positions = <<[ticker |-> LastOrder.ticker, quantity |-> 1,
                              avgCostBasis |-> 40000]>>

\* C9: every position stored in the ledger has a quantity > 0
PositionsPositive ==
    HasAccount => \A i \in 1..Len(Account.positions) : Account.positions[i].quantity > 0

\* the claim's test of a limit price against the market price
Favorable(order, market_price) ==
    IF order.side = "buy" THEN order.limitPrice[1] >= market_price
                          ELSE order.limitPrice[1] <= market_price

\* C10 as claimed: with the market price available, a limit order with a limit price
\* fills iff the limit is favorable, then at exactly the limit price, and is rejected
\* with "Limit price not favorable for immediate execution" otherwise
LimitFillsIffFavorable ==
    HasAccount =>
    \A order \in Orders, market_price \in Priced :
        (order.type = "limit" /\ order.limitPrice # None) =>
        LET r == place_order(accounts, order, market_price)
        IN  IF Favorable(order, market_price)
            THEN /\ r.response.status = "filled"
                 /\ r.response.filledPrice = order.limitPrice
            ELSE r.response =
                    Rejected(<<"Limit price not favorable for immediate execution">>)

\* C10 as amended: with the market price available, a limit order with a limit price is
\* rejected with "Limit price not favorable for immediate execution" iff the limit is
\* not favorable; it fills only if the limit is favorable, and then at exactly the limit
\* price; a favorable limit order that does not fill is rejected for insufficient funds,
\* no position or insufficient shares, or the request fails
LimitPriceCheck ==
    HasAccount =>
    \A order \in Orders, market_price \in Priced :
        (order.type = "limit" /\ order.limitPrice # None) =>
        LET r == place_order(accounts, order, market_price)
            unfavorable == Rejected(<<"Limit price not favorable for immediate execution">>)
        IN  /\ (r.response = unfavorable) <=> ~Favorable(order, market_price)
            /\ r.response.status = "filled" =>
                  /\ Favorable(order, market_price)
                  /\ r.response.filledPrice = order.limitPrice
            /\ (Favorable(order, market_price) /\ r.response.status # "filled") =>
                  \/ r.response.kind = "error"
                  \/ /\ order.side = "buy"
                     /\ r.response = Rejected(<<"Insufficient funds">>)
                  \/ /\ order.side = "sell"
                     /\ r.response \in {Rejected(<<"No position to sell">>),
                                        Rejected(<<"Insufficient shares">>)}

\* C10 witness: a limit buy was filled at its limit 40000, above the market price, and
\* a limit buy at the market price 30000 is answered by a fill
LimitBuyFilledAtLimit ==
    /\ HasAccount
    /\ Len(Account.orders) >= 1
    /\ LastOrder.type = "limit" /\ LastOrder.side = "buy"
    /\ LastOrder.filledPrice = 40000
    /\ \E order \in Orders :
          /\ order.type = "limit" /\ order.side = "buy"
          /\ order.limitPrice = Some(30000)
          /\ place_order(accounts, order, 30000).response.status = "filled"


\* C11: a filled market order is filled at marketPrice x (1 + 0.001) for a buy and at
\* marketPrice x (1 - 0.001) for a sell, so above the market price for a buy and below
\* it for a sell; the order record carries the same price
MarketFillPrice ==
    HasAccount =>
    \A order \in Orders, market_price \in Priced :
        LET r == place_order(accounts, order, market_price)
        IN  (order.type = "market" /\ r.response.status = "filled") =>
            LET price == r.response.filledPrice[1]
                after == r.accounts[verify_token]
            IN  /\ after.orders[Len(after.orders)].filledPrice = price
                /\ order.side = "buy" =>
                      /\ 1000 * price = (1000 + 1) * market_price
                      /\ price > market_price
                /\ order.side = "sell" =>
                      /\ 1000 * price = (1000 - 1) * market_price
                      /\ price < market_price

\* C11 witness: a market buy was filled at 30030 and then a market sell at 29970, the
\* market price being 30000
MarketBuyThenSell ==
    /\ HasAccount
    /\ Len(Account.orders) = 2
    /\ Account.orders[1].type = "market" /\ Account.orders[1].side = "buy"
    /\ Account.orders[1].filledPrice = 30030
    /\ LastOrder.type = "market" /\ LastOrder.side = "sell"
    /\ LastOrder.filledPrice = 29970

\* cash at the starting capital, no position, no order: what a reset leaves
Fresh(account) ==
    /\ account.cash = STARTING_CASH
    /\ account.positions = <<>>
    /\ account.orders = <<>>

\* C12 as claimed: a reset leaves the starting cash, an empty ledger and an empty
\* history, and a reset of an account as a reset leaves it (and as a first access
\* leaves it) gives the same stored state
ResetIdempotent ==
    /\ Fresh(reset_account(accounts, now).accounts[verify_token])
    /\ (HasAccount /\ Fresh(Account)) => reset_account(accounts, now).accounts = accounts

\* C12 as amended: a reset saves an account with the starting cash, an empty ledger, an
\* empty history and the time of the reset as createdAt; a second reset gives the same
\* account but for createdAt, which is the time of the second reset
ResetRestores ==
    LET once == reset_account(accounts, now)
    IN  /\ once.saved
        /\ DOMAIN once.accounts = DOMAIN accounts \cup {verify_token}
        /\ Fresh(once.accounts[verify_token])
        /\ once.accounts[verify_token].userId = verify_token
        /\ once.accounts[verify_token].createdAt = now
        /\ \A t \in now..MaxClock :
              LET twice == reset_account(once.accounts, t)
              IN  /\ twice.saved
                  /\ twice.accounts =
                        [once.accounts EXCEPT ![verify_token].createdAt = t]

\* C12 witness: some time after its creation, an account with a position, an order and
\* less cash than at the start, which a reset replaces by a fresh one
UsedAccountIsReset ==
    /\ HasAccount
    /\ Len(Account.orders) >= 1
    /\ Len(Account.positions) >= 1
    /\ Account.cash < STARTING_CASH
    /\ Account.createdAt < now
    /\ Fresh(reset_account(accounts, now).accounts[verify_token])

\* C13: with one request at a time, the k-th record of the account's history has the id
\* order_k, so the ids of a history are distinct and increase in the order of the
\* records, and a filled response carries the id of the record it appended, order_n with
\* n the length of the history before plus one
OrderIdsSequential ==
    HasAccount =>
    /\ \A k \in 1..Len(Account.orders) : Account.orders[k].orderId = OrderId(k)
    /\ \A j, k \in 1..Len(Account.orders) :
          j < k => /\ Account.orders[j].orderId # Account.orders[k].orderId
                   /\ Account.orders[j].orderId[2] < Account.orders[k].orderId[2]
    /\ \A order \in Orders, market_price \in MarketPrices :
          LET r == place_order(accounts, order, market_price)
          IN  r.response.status = "filled" =>
              LET after == r.accounts[verify_token].orders
              IN  /\ Len(after) = Len(Account.orders) + 1
                  /\ r.response.orderId = OrderId(Len(Account.orders) + 1)
                  /\ after[Len(after)].orderId = r.response.orderId

\* C13 witness: a history of two records, order_1 and order_2
TwoOrdersNumbered ==
    /\ HasAccount
    /\ Len(Account.orders) = 2
    /\ Account.orders[1].orderId = <<"order_", 1>>
    /\ Account.orders[2].orderId = <<"order_", 2>>

\* C15: with the price unavailable, an order on an existing account is rejected with
\* "Unable to fetch price for <ticker>" and nothing is saved, whatever else is wrong with
\* the order: a limit order without a limit price, an unfavorable limit, a buy beyond the
\* cash, a sell of a ticker not held or of more than is held
PriceUnavailableFirst ==
    HasAccount =>
    \A order \in Orders :
        LET r == place_order(accounts, order, Unavailable)
        IN  /\ r.response = Rejected(<<"Unable to fetch price for ", order.ticker>>)
            /\ ~r.saved
            /\ r.accounts = accounts

\* C15 witness: an account whose cash is short of one unit at market and that holds no
\* ABC: orders that the other checks reject when the price is available are rejected for
\* the price when it is not
OtherChecksWouldReject ==
    /\ HasAccount
    /\ Account.cash < 30030
    /\ NotHeld(Account.positions, "ABC")
    /\ \E buy, sell, limit \in Orders :
          /\ buy.ticker = "ABC" /\ sell.ticker = "ABC" /\ limit.ticker = "ABC"
          /\ place_order(accounts, buy, 30000).response = Rejected(<<"Insufficient funds">>)
          /\ place_order(accounts, sell, 30000).response = Rejected(<<"No position to sell">>)
          /\ place_order(accounts, limit, 30000).response =
                Rejected(<<"Limit price required for limit orders">>)
          /\ \A order \in {buy, sell, limit} :
                place_order(accounts, order, Unavailable).response =
                    Rejected(<<"Unable to fetch price for ", "ABC">>)

\* C16: an order of a user who has no account in the store is answered by the error
\* 404 "Account not found", not by an order response; the price is not asked for and
\* nothing is saved, so the store has no account after it either; get_orders creates none
OrderWithoutAccount ==
    ~HasAccount =>
    /\ \A order \in Orders, market_price \in MarketPrices :
          LET r == place_order(accounts, order, market_price)
          IN  /\ r.response = HttpError(404, "Account not found")
              /\ r.response.kind # "order"
              /\ ~r.queried
              /\ ~r.saved
              /\ r.accounts = accounts
              /\ verify_token \notin DOMAIN r.accounts
    /\ LET r == get_orders(accounts)
       IN  /\ r.response.orders = <<>>
           /\ ~r.saved
           /\ r.accounts = accounts

\* C16 witness: no account is stored, an order is answered by the error 404, and a
\* get_account or a reset_account stores the account
NoAccountYet ==
    /\ ~HasAccount
    /\ \E order \in Orders : place_order(accounts, order, 30000).response.code = 404
    /\ \A prices \in PriceTables :
          verify_token \in DOMAIN get_account(accounts, prices, now).accounts
    /\ verify_token \in DOMAIN reset_account(accounts, now).accounts

\* the history calls of the running call that came back with rows
WithData == { k \in 1..Len(outcomes) : outcomes[k].result.kind = "rows" }

\* the rounds of the retry loop in which the running call made a history call
AttemptsMade == { outcomes[k].attempt : k \in 1..Len(outcomes) }

\* a call of get_current_price never raises and makes three attempts at most; it goes on
\* only as long as no history call came back with rows; when it has returned, it
\* returned the positive close of the first history call that came back with rows, or
\* 0.0 after three attempts without rows
CallBounded ==
    /\ step # "raised"
    /\ attempt < 3
    /\ Cardinality(AttemptsMade) <= 3
    /\ \A k \in 1..Len(outcomes) : outcomes[k].attempt < 3
    /\ step \notin {"idle", "returned"} => WithData = {}
    /\ step = "returned" =>
          IF WithData # {}
          THEN /\ WithData = {Len(outcomes)}
               /\ returned = Some(outcomes[Len(outcomes)].result.close)
               /\ returned[1] > 0
          ELSE /\ returned = Some(0)
               /\ Cardinality(AttemptsMade) = 3

\* C17: get_current_price ends after three attempts at most and never raises: whatever
\* each attempt meets (rows, no row, an exception), the call returns, with the price of
\* the first attempt that has rows, or with 0.0 once three attempts have failed, and it
\* makes no fourth attempt
PriceCallTerminates ==
    /\ []CallBounded
    /\ (step \notin {"idle", "returned"}) ~> (step = "returned")

\* C17 witness: the call returned the close 30000 of its third attempt, after a first
\* attempt that met an exception and a second one that met no row twice
ThirdAttemptHasRows ==
    /\ step = "returned"
    /\ returned = Some(30000)
    /\ Len(outcomes) = 4
    /\ outcomes[1] = [attempt |-> 0, period |-> "1d", result |-> Exception]
    /\ outcomes[2] = [attempt |-> 1, period |-> "1d", result |-> Empty]
    /\ outcomes[3] = [attempt |-> 1, period |-> "5d", result |-> Empty]
    /\ outcomes[4].attempt = 2

\* the value at the prices of the positions of a ledger, position by position from the
\* last one
RECURSIVE ValueOfPositions(_, _)
ValueOfPositions(positions, prices) ==
    IF positions = <<>> THEN 0
    ELSE LET last == positions[Len(positions)]
         IN  last.quantity * prices[last.ticker]
               + ValueOfPositions(SubSeq(positions, 1, Len(positions) - 1), prices)

\* C18: the valuation of an account answers, whatever prices are available, with
\* totalValue = cash + the sum over the positions of quantity x currentPrice and
\* totalPL = totalValue - starting capital; a position whose price is unavailable is
\* valued at the price 0, with marketValue 0 and unrealizedPL = -(quantity x
\* avgCostBasis), and the other positions at their prices
ValuationTotals ==
    \A prices \in PriceTables :
        LET r == get_account(accounts, prices, now)
            stored == r.accounts[verify_token]
            valued == r.response.account
        IN  /\ r.response.code = 200
            /\ valued.cash = stored.cash
            /\ valued.totalValue = stored.cash + ValueOfPositions(stored.positions, prices)
            /\ valued.totalPL = valued.totalValue - 100000
            /\ Len(valued.positions) = Len(stored.positions)
            /\ \A i \in 1..Len(stored.positions) :
                  LET position == stored.positions[i]
                      price == prices[position.ticker]
                  IN  /\ valued.positions[i].ticker = position.ticker
                      /\ valued.positions[i].quantity = position.quantity
                      /\ valued.positions[i].currentPrice = price
                      /\ valued.positions[i].marketValue = position.quantity * price
                      /\ valued.positions[i].unrealizedPL =
                            position.quantity * price
                              - position.quantity * position.avgCostBasis
                      /\ price = Unavailable =>
                            /\ valued.positions[i].currentPrice = 0
                            /\ valued.positions[i].marketValue = 0
                            /\ valued.positions[i].unrealizedPL =
                                  0 - position.quantity * position.avgCostBasis

\* C18 witness: one unit of XYZ and two of ABC are held; with no price for XYZ and ABC at
\* 30000 the valuation counts XYZ for 0 and ABC for 60000
OnePriceMissing ==
    /\ HasAccount
    /\ Len(Account.positions) = 2
    /\ Account.positions[1].ticker = "XYZ" /\ Account.positions[1].quantity = 1
    /\ Account.positions[2].ticker = "ABC" /\ Account.positions[2].quantity = 2
    /\ \E prices \in PriceTables :
          /\ prices["XYZ"] = Unavailable /\ prices["ABC"] = 30000
          /\ LET valued == get_account(accounts, prices, now).response.account
             IN  /\ valued.positions[1].marketValue = 0
                 /\ valued.positions[2].marketValue = 60000
                 /\ valued.totalValue = Account.cash + 60000

\* C19: in every reachable state the ledger of an account holds at most one position
\* per ticker, and a filled buy of a ticker that is held changes the entry of the ticker
\* and adds none
OnePositionPerTicker ==
    HasAccount =>
    /\ \A i, j \in 1..Len(Account.positions) :
          Account.positions[i].ticker = Account.positions[j].ticker => i = j
    /\ \A order \in Orders, market_price \in Priced :
          LET r == place_order(accounts, order, market_price)
          IN  (/\ order.side = "buy"
               /\ r.response.status = "filled"
               /\ ~NotHeld(Account.positions, order.ticker)) =>
              LET after == r.accounts[verify_token].positions
              IN  /\ Len(after) = Len(Account.positions)
                  /\ \A i \in 1..Len(after) :
                        /\ after[i].ticker = Account.positions[i].ticker
                        /\ after[i].ticker # order.ticker => after[i] = Account.positions[i]
                        /\ after[i].ticker = order.ticker =>
                              after[i].quantity =
                                  Account.positions[i].quantity + order.quantity

\* C19 witness: after two filled buys of XYZ the ledger has the one entry of XYZ, of
\* three units
BoughtTwiceOneEntry ==
    /\ HasAccount
    /\ Len(Account.orders) = 2
    /\ \A k \in 1..2 : Account.orders[k].side = "buy" /\ Account.orders[k].ticker = "XYZ"
    /\ Len(Account.positions) = 1
    /\ Account.positions[1].ticker = "XYZ"
    /\ Account.positions[1].quantity = 3

\* the keys of an account and of a position as place_order, get_account and
\* reset_account build them
AccountKeys == {"userId", "cash", "positions", "orders", "createdAt"}
PositionKeys == {"ticker", "quantity", "avgCostBasis"}

\* the accounts of a dict carry no valuation field
NoValuationStored(accts) ==
    \A u \in DOMAIN accts :
        /\ DOMAIN accts[u] = AccountKeys
        /\ \A i \in 1..Len(accts[u].positions) :
              DOMAIN accts[u].positions[i] = PositionKeys

\* C20: the reading requests change nothing that is stored: get_orders saves nothing,
\* account or no account, and answers with the stored history; get_account on an
\* existing account saves nothing; and no stored account, the one a first get_account
\* creates included, carries a valuation field (currentPrice, marketValue,
\* unrealizedPL, unrealizedPLPercent, totalValue, totalPL, totalPLPercent)
ReadsChangeNothing ==
    /\ NoValuationStored(accounts)
    /\ LET r == get_orders(accounts)
       IN  /\ ~r.saved
           /\ r.accounts = accounts
           /\ r.response.orders = (IF HasAccount THEN Account.orders ELSE <<>>)
    /\ \A prices \in PriceTables :
          LET r == get_account(accounts, prices, now)
          IN  /\ NoValuationStored(r.accounts)
              /\ HasAccount => (~r.saved /\ r.accounts = accounts)
              /\ r.saved => r.accounts[verify_token] = NewAccount(verify_token, now)

\* C20 witness: some time after its creation an account holds a position; get_account
\* answers with the position valued at 30000 a unit and stores nothing
ValuedButNotStored ==
    /\ HasAccount
    /\ Account.createdAt < now
    /\ Len(Account.orders) >= 1
    /\ Len(Account.positions) = 1
    /\ Account.positions[1].quantity = 2
    /\ \E prices \in PriceTables :
          LET r == get_account(accounts, prices, now)
          IN  /\ r.response.account.positions[1].marketValue = 60000
              /\ r.response.account.totalValue = Account.cash + 60000
              /\ ~r.saved
              /\ r.accounts = accounts

====
